---- MODULE Spec2Model ----
(***************************************************************************)
(* A model of the AI teaching assistant (src/final_app.py, src/prompts.py):*)
(*   - process_feedback: group feedback rows, one completion per group,    *)
(*     tolerant JSON extraction, one record per group;                     *)
(*   - the lecture section of the Streamlit script: the session            *)
(*     transcript, upload / fetch, and analyze_transcript;                 *)
(*   - the text helpers both rest on (strip, fences, truncation).          *)
(*                                                                         *)
(* A text is a sequence of one-character strings.  A JSON document inside  *)
(* a completion is one element of the sequence: a string holding the       *)
(* document's literal text, which json_loads maps to its parsed value.     *)
(* Python values are tagged records (None, Str, List, Num, Dict).          *)
(***************************************************************************)
EXTENDS Integers, Sequences, FiniteSets, TLC

VARIABLES
    \* ---- process_feedback (one run) ----
    df,              \* the DataFrame: a sequence of feedback rows
    pc,              \* position inside process_feedback and its caller
    i,               \* loop index of enumerate(...)
    total_groups,    \* len(df.groupby(...))
    results,         \* the list of records appended so far
    calls,           \* every call_llm invocation made: group number, items sent, outcome
    raw,             \* the completion text of the current group
    progress,        \* numerator last given to progress_bar.progress (i + 1)
    exc,             \* the exception that left process_feedback ("" when none)
    \* ---- lecture section of the script (one session) ----
    option,          \* st.radio value
    txt_file,        \* st.file_uploader value (upload branch)
    video_id,        \* st.text_input value (YouTube branch)
    transcript_text, \* st.session_state.transcript_text
    upc,             \* position of the running script ("idle" between reruns)
    analyzed,        \* the argument of the analyze_transcript call in progress / last made
    prompt_text,     \* transcript_text[:5000] placed in LECTURE_PROMPT
    critique,        \* the value analyze_transcript returned to the script
    msgs,            \* messages the last script run displayed
    event,           \* the UI event that triggered the last script run
    lastStored,      \* history: the value of the latest assignment to transcript_text
    \* ---- helpers applied to one drawn input ----
    arg,             \* the input text
    applied,         \* which helper was applied ("" before)
    ret              \* what it returned

fvars == <<df, pc, i, total_groups, results, calls, raw, progress, exc>>
uvars == <<option, txt_file, video_id, transcript_text, upc, analyzed,
           prompt_text, critique, msgs, event, lastStored>>
hvars == <<arg, applied, ret>>
vars  == <<fvars, uvars, hvars>>

-----------------------------------------------------------------------------
(* Python values *)

None == [tag |-> "none"]
Str(t) == [tag |-> "str", s |-> t]
List(xs) == [tag |-> "list", items |-> xs]
Num(n) == [tag |-> "num", n |-> n]
Dict(d) == [tag |-> "dict", d |-> d]

\* dict.get(key): the value, or None when the key is missing
get(d, k) == IF k \in DOMAIN d THEN d[k] ELSE None

\* truthiness of None / str as used by: if st.session_state.transcript_text
Truthy(v) == v.tag = "str" /\ Len(v.s) > 0

Min(a, b) == IF a <= b THEN a ELSE b

-----------------------------------------------------------------------------
(* str methods and slices *)

Ws == {" ", "\n"}

RECURSIVE lstrip(_)
lstrip(s) == IF s # <<>> /\ Head(s) \in Ws THEN lstrip(Tail(s)) ELSE s

RECURSIVE rstrip(_)
rstrip(s) ==
    IF s # <<>> /\ s[Len(s)] \in Ws THEN rstrip(SubSeq(s, 1, Len(s) - 1)) ELSE s

strip(s) == rstrip(lstrip(s))

startswith(s, p) == Len(s) >= Len(p) /\ SubSeq(s, 1, Len(p)) = p

endswith(s, p) == Len(s) >= Len(p) /\ SubSeq(s, Len(s) - Len(p) + 1, Len(s)) = p

\* s[k:]
SliceFrom(s, k) == SubSeq(s, Min(k, Len(s)) + 1, Len(s))

\* s[:k]
SliceTo(s, k) == SubSeq(s, 1, Min(k, Len(s)))

\* s[:-k]
SliceDropLast(s, k) == SubSeq(s, 1, Len(s) - Min(k, Len(s)))

\* the backtick character (a TLA+ string literal cannot hold one)
Tick == "<backtick>"

\* the fence literals of lines 47 and 49: three backticks followed by json
\* (7 characters), and three backticks (3 characters)
FenceJson == <<Tick, Tick, Tick, "j", "s", "o", "n">>
Fence == <<Tick, Tick, Tick>>

-----------------------------------------------------------------------------
(* json.loads *)

DocPartial == "{\"summary\":\"ok\",\"sentiment\":\"positive\"}"
DocFull == "{\"summary\":\"ok\",\"sentiment\":\"negative\",\"actions\":[\"a\"],\"example_quotes\":[\"q\"]}"
DocNullExtra == "{\"summary\":null,\"confidence\":\"high\"}"
DocEmpty == "{}"
DocLecture == "{\"summary\":\"ok\",\"clarity_structure\":\"c\",\"missing_content\":\"m\",\"factual_issues\":\"none\",\"pedagogical_suggestions\":\"p\"}"
DocLectureExtra == "{\"summary\":\"ok\",\"factual_issues\":null,\"grade\":\"B\"}"
DocArray == "[\"a\"]"
DocString == "\"ok\""
DocNumber == "7"
DocNull == "null"

ObjectDocs == {DocPartial, DocFull, DocNullExtra, DocEmpty, DocLecture, DocLectureExtra}
NonObjectDocs == {DocArray, DocString, DocNumber, DocNull}
Docs == ObjectDocs \cup NonObjectDocs

\* the Python value json.loads builds from a document
DocValue(doc) ==
    CASE doc = DocPartial ->
           Dict([summary |-> Str(<<"o", "k">>),
                 sentiment |-> Str(<<"p", "o", "s", "i", "t", "i", "v", "e">>)])
      [] doc = DocFull ->
           Dict([summary |-> Str(<<"o", "k">>),
                 sentiment |-> Str(<<"n", "e", "g", "a", "t", "i", "v", "e">>),
                 actions |-> List(<<Str(<<"a">>)>>),
                 example_quotes |-> List(<<Str(<<"q">>)>>)])
      [] doc = DocNullExtra ->
           Dict([summary |-> None,
                 confidence |-> Str(<<"h", "i", "g", "h">>)])
      [] doc = DocEmpty -> Dict(<<>>)
      [] doc = DocLecture ->
           Dict([summary |-> Str(<<"o", "k">>),
                 clarity_structure |-> Str(<<"c">>),
                 missing_content |-> Str(<<"m">>),
                 factual_issues |-> Str(<<"n", "o", "n", "e">>),
                 pedagogical_suggestions |-> Str(<<"p">>)])
      [] doc = DocLectureExtra ->
           Dict([summary |-> Str(<<"o", "k">>),
                 factual_issues |-> None,
                 grade |-> Str(<<"B">>)])
      [] doc = DocArray -> List(<<Str(<<"a">>)>>)
      [] doc = DocString -> Str(<<"o", "k">>)
      [] doc = DocNumber -> Num(7)
      [] doc = DocNull -> None

\* str(e) of the JSONDecodeError: one element standing for the message text
DecodeErrorText == <<"<JSONDecodeError message>">>

\* json.loads(text): the value of the single document the text holds (JSON
\* whitespace around it allowed); anything else raises JSONDecodeError.
json_loads(text) ==
    LET t == strip(text)
    IN  IF Len(t) = 1 /\ t[1] \in Docs
        THEN [ok |-> TRUE, val |-> DocValue(t[1])]
        ELSE [ok |-> FALSE, err |-> DecodeErrorText]

-----------------------------------------------------------------------------
(* The extraction step shared by process_feedback and analyze_transcript *)

\* lines 46-51 / 91-96: strip, drop a leading FenceJson, drop a trailing Fence, strip
CleanResponse(rawtext) ==
    LET a == strip(rawtext)
        b == IF startswith(a, FenceJson) THEN SliceFrom(a, 7) ELSE a
        c == IF endswith(b, Fence) THEN SliceDropLast(b, 3) ELSE b
    IN  strip(c)

\* faulty variant: the fallback keeps the cleaned text instead of the raw completion
FeedbackParsed_cleaned(rawtext) ==
    LET r == json_loads(CleanResponse(rawtext))
    IN  IF r.ok THEN r.val ELSE Dict([summary |-> Str(CleanResponse(rawtext))])

\* lines 44-56: parsed, or the fallback {"summary": raw} when parsing raised
FeedbackParsed(rawtext) ==
    LET r == json_loads(CleanResponse(rawtext))
    IN  IF r.ok THEN r.val ELSE Dict([summary |-> Str(rawtext)])

\* faulty variant: the examples column read from the key "examples"
FeedbackRecord_examplesKey(inst, course, rawtext) ==
    LET parsed == FeedbackParsed(rawtext)
    IN  IF parsed.tag = "dict"
        THEN [exc |-> "",
              rec |-> [instructor_id |-> inst,
                       course_id |-> course,
                       summary |-> get(parsed.d, "summary"),
                       sentiment |-> get(parsed.d, "sentiment"),
                       actions |-> get(parsed.d, "actions"),
                       examples |-> get(parsed.d, "examples")]]
        ELSE [exc |-> "AttributeError"]

\* lines 44-65: the record appended for a group; parsed.get raises
\* AttributeError (outside the try) when parsed is not a dict
FeedbackRecord(inst, course, rawtext) ==
    LET parsed == FeedbackParsed(rawtext)
    IN  IF parsed.tag = "dict"
        THEN [exc |-> "",
              rec |-> [instructor_id |-> inst,
                       course_id |-> course,
                       summary |-> get(parsed.d, "summary"),
                       sentiment |-> get(parsed.d, "sentiment"),
                       actions |-> get(parsed.d, "actions"),
                       examples |-> get(parsed.d, "example_quotes")]]
        ELSE [exc |-> "AttributeError"]

ErrorParsingResponse ==
    <<"E", "r", "r", "o", "r", " ", "p", "a", "r", "s", "i", "n", "g", " ",
      "r", "e", "s", "p", "o", "n", "s", "e">>

\* lines 89-104: what analyze_transcript returns for a completion
AnalyzeParsed(rawtext) ==
    LET r == json_loads(CleanResponse(rawtext))
    IN  IF r.ok
        THEN r.val
        ELSE Dict([summary |-> Str(ErrorParsingResponse), error |-> Str(r.err)])

-----------------------------------------------------------------------------
(* Completion texts *)

Wrap(lead, open, sep, body, close, trail) ==
    lead \o open \o sep \o body \o sep \o close \o trail

Bodies == {<<d>> : d \in Docs} \cup {<<>>, <<"x">>, <<DocEmpty, DocEmpty>>}

RawTexts ==
    {Wrap(lead, open, sep, body, close, trail) :
        lead \in {<<>>, <<" ">>}, open \in {<<>>, Fence, FenceJson},
        sep \in {<<>>, <<"\n">>}, body \in Bodies,
        close \in {<<>>, Fence}, trail \in {<<>>, <<"\n">>}}

-----------------------------------------------------------------------------
(* Truncation *)

\* Scaled stand-ins for the character budgets of the source, so that texts
\* longer than each budget stay enumerable: max_chars=60000 (line 76),
\* feedback_items[:2000] (line 42), transcript_text[:5000] (line 87).
FetchMaxChars == 3
FeedbackBudget == 4
TranscriptBudget == 2

\* the literal " ...[truncated]" (15 characters)
TruncatedMarker ==
    <<" ", ".", ".", ".", "[", "t", "r", "u", "n", "c", "a", "t", "e", "d", "]">>

\* faulty variant: the cut without the marker
TruncateFetched_noMarker(text, max_chars) ==
    IF Len(text) > max_chars THEN SliceTo(text, max_chars) ELSE text

\* lines 81-83: text[:max_chars] + " ...[truncated]" when longer than max_chars
TruncateFetched(text, max_chars) ==
    IF Len(text) > max_chars
    THEN SliceTo(text, max_chars) \o TruncatedMarker
    ELSE text

\* line 42: feedback_items[:2000], the part of the prompt that varies
FeedbackItemsForPrompt(items) == SliceTo(items, FeedbackBudget)

\* line 87: transcript_text[:5000], the part of the prompt that varies
TranscriptForPrompt(text) == SliceTo(text, TranscriptBudget)

-----------------------------------------------------------------------------
(* Idle values of the three groups of variables *)

FeedbackOff ==
    /\ df = <<>> /\ pc = "off" /\ i = 0 /\ total_groups = 0 /\ results = <<>>
    /\ calls = <<>> /\ raw = <<>> /\ progress = 0 /\ exc = ""

LectureOff ==
    /\ option = "upload" /\ txt_file = None /\ video_id = <<>>
    /\ transcript_text = None /\ upc = "off" /\ analyzed = None
    /\ prompt_text = <<>> /\ critique = None /\ msgs = {} /\ event = "off"
    /\ lastStored = None

HelpersOff == arg = <<>> /\ applied = "off" /\ ret = None

-----------------------------------------------------------------------------
(* The extraction step applied to one completion text *)

InitExtract ==
    /\ arg \in RawTexts /\ applied = "" /\ ret = None
    /\ FeedbackOff /\ LectureOff

\* process_feedback, lines 44-65, on the completion arg (for the group (1, 10))
ApplyFeedbackExtract ==
    /\ applied = ""
    /\ applied' = "process_feedback"
    /\ ret' = FeedbackRecord(1, 10, arg)
    /\ UNCHANGED <<arg, fvars, uvars>>

\* analyze_transcript, lines 89-104, on the completion arg
ApplyLectureExtract ==
    /\ applied = ""
    /\ applied' = "analyze_transcript"
    /\ ret' = AnalyzeParsed(arg)
    /\ UNCHANGED <<arg, fvars, uvars>>

NextExtract == ApplyFeedbackExtract \/ ApplyLectureExtract

SpecExtract == InitExtract /\ [][NextExtract]_vars

-----------------------------------------------------------------------------
(* The three truncations applied to one text *)

MaxTextLen == 5

TextsUpTo(n) == UNION {[1..k -> {"a", "b"}] : k \in 0..n}

InitTrunc ==
    /\ arg \in TextsUpTo(MaxTextLen) /\ applied = "" /\ ret = None
    /\ FeedbackOff /\ LectureOff

ApplyFetchCap ==
    /\ applied = ""
    /\ applied' = "fetch_cap"
    /\ ret' = Str(TruncateFetched(arg, FetchMaxChars))
    /\ UNCHANGED <<arg, fvars, uvars>>

ApplyFeedbackBudget ==
    /\ applied = ""
    /\ applied' = "feedback_budget"
    /\ ret' = Str(FeedbackItemsForPrompt(arg))
    /\ UNCHANGED <<arg, fvars, uvars>>

ApplyTranscriptBudget ==
    /\ applied = ""
    /\ applied' = "transcript_budget"
    /\ ret' = Str(TranscriptForPrompt(arg))
    /\ UNCHANGED <<arg, fvars, uvars>>

NextTrunc == ApplyFetchCap \/ ApplyFeedbackBudget \/ ApplyTranscriptBudget

SpecTrunc == InitTrunc /\ [][NextTrunc]_vars

-----------------------------------------------------------------------------
(* process_feedback and its caller (lines 30-74, 238-256) *)

MaxRows == 3

KeysUsed == {<<1, 10>>, <<2, 10>>, <<2, 20>>}
FeedbackTexts == {<<"a">>, <<"b", "c">>}

RowSet ==
    {[instructor_id |-> k[1], course_id |-> k[2], feedback_text |-> t] :
        k \in KeysUsed, t \in FeedbackTexts}

\* what the completion endpoint may answer for a feedback prompt
FeedbackCompletions ==
    {<<DocPartial>>,
     Fence \o <<"\n", DocFull, "\n">> \o Fence,
     <<"x">>,
     <<DocArray>>}

KeyOf(row) == <<row.instructor_id, row.course_id>>

\* tuple comparison of group keys
KeyLess(a, b) == a[1] < b[1] \/ (a[1] = b[1] /\ a[2] < b[2])

DistinctKeys(d) == {KeyOf(d[k]) : k \in 1..Len(d)}

RECURSIVE SortKeys(_)
SortKeys(S) ==
    IF S = {}
    THEN <<>>
    ELSE LET m == CHOOSE x \in S : \A y \in S \ {x} : KeyLess(x, y)
         IN  <<m>> \o SortKeys(S \ {m})

RECURSIVE FirstSeenKeys(_)
FirstSeenKeys(d) ==
    IF d = <<>>
    THEN <<>>
    ELSE LET init == FirstSeenKeys(SubSeq(d, 1, Len(d) - 1))
             k == KeyOf(d[Len(d)])
         IN  IF \E j \in 1..Len(init) : init[j] = k THEN init ELSE Append(init, k)

\* faulty variant: groupby(..., sort=False), groups in first-seen order
GroupKeys_firstSeen(d) == FirstSeenKeys(d)

\* the group keys df.groupby(["instructor_id", "course_id"]) iterates over:
\* groupby sorts the keys (sort=True is its default)
GroupKeys(d) == SortKeys(DistinctKeys(d))

\* the rows of one group, in their order in df
GroupRows(d, key) == SelectSeq(d, LAMBDA r : KeyOf(r) = key)

\* line 41: "\n".join("- " + str(x) for x in g["feedback_text"].tolist())
RECURSIVE BulletJoin(_)
BulletJoin(g) ==
    IF g = <<>>
    THEN <<>>
    ELSE <<"-", " ">> \o g[1].feedback_text
         \o (IF Len(g) > 1 THEN <<"\n">> \o BulletJoin(Tail(g)) ELSE <<>>)

\* lines 41-42: the feedback items placed in FEEDBACK_PROMPT for group number n
PromptItems(d, n) == FeedbackItemsForPrompt(BulletJoin(GroupRows(d, GroupKeys(d)[n])))

Init ==
    /\ df \in UNION {[1..n -> RowSet] : n \in 0..MaxRows}
    /\ pc = "button" /\ i = 0 /\ total_groups = 0 /\ results = <<>>
    /\ calls = <<>> /\ raw = <<>> /\ progress = 0 /\ exc = ""
    /\ LectureOff /\ HelpersOff

\* lines 238-240, 32-36: the Analyze Feedback button starts process_feedback
ClickAnalyzeFeedback ==
    /\ pc = "button"
    /\ pc' = "loop"
    /\ results' = <<>>
    /\ total_groups' = Len(GroupKeys(df))
    /\ progress' = 0
    /\ i' = 0
    /\ UNCHANGED <<df, calls, raw, exc, uvars, hvars>>

\* lines 38-43: the next group's prompt is sent and call_llm returns a completion
CallLlmReturns ==
    /\ pc = "loop" /\ i < total_groups
    /\ \E r \in FeedbackCompletions :
        /\ raw' = r
        /\ calls' = Append(calls, [group |-> i + 1,
                                   feedback_items |-> PromptItems(df, i + 1),
                                   outcome |-> "returned",
                                   completion |-> r])
    /\ pc' = "parse"
    /\ UNCHANGED <<df, i, total_groups, results, progress, exc, uvars, hvars>>

\* lines 38-43, 20-28: call_llm raises (openai error); line 43 is outside any
\* try of process_feedback, so the exception leaves the function
CallLlmRaises ==
    /\ pc = "loop" /\ i < total_groups
    /\ calls' = Append(calls, [group |-> i + 1,
                               feedback_items |-> PromptItems(df, i + 1),
                               outcome |-> "raised",
                               completion |-> <<>>])
    /\ exc' = "UpstreamError"
    /\ pc' = "raised"
    /\ UNCHANGED <<df, i, total_groups, results, raw, progress, uvars, hvars>>

\* lines 44-65: clean, parse (fallback on a parse error), append the record;
\* parsed.get on a non-dict raises AttributeError out of the function
ParseAndAppend ==
    /\ pc = "parse"
    /\ LET key == GroupKeys(df)[i + 1]
           r == FeedbackRecord(key[1], key[2], raw)
       IN  IF r.exc = ""
           THEN /\ results' = Append(results, r.rec)
                /\ pc' = "progress"
                /\ exc' = exc
           ELSE /\ results' = results
                /\ pc' = "raised"
                /\ exc' = r.exc
    /\ UNCHANGED <<df, i, total_groups, calls, raw, progress, uvars, hvars>>

\* line 67: progress_bar.progress((i + 1) / total_groups), then the next group
ReportProgress ==
    /\ pc = "progress"
    /\ progress' = i + 1
    /\ i' = i + 1
    /\ pc' = "loop"
    /\ UNCHANGED <<df, total_groups, results, calls, raw, exc, uvars, hvars>>

\* lines 69-74: the loop is over, the records are returned as a DataFrame
ReturnResults ==
    /\ pc = "loop" /\ i = total_groups
    /\ pc' = "done"
    /\ UNCHANGED <<df, i, total_groups, results, calls, raw, progress, exc,
                   uvars, hvars>>

\* lines 255-256: the caller's except reports the exception; no records reach it
ReportException ==
    /\ pc = "raised"
    /\ pc' = "error_shown"
    /\ UNCHANGED <<df, i, total_groups, results, calls, raw, progress, exc,
                   uvars, hvars>>

Next ==
    \/ ClickAnalyzeFeedback
    \/ CallLlmReturns
    \/ CallLlmRaises
    \/ ParseAndAppend
    \/ ReportProgress
    \/ ReturnResults
    \/ ReportException

Spec == Init /\ [][Next]_vars

-----------------------------------------------------------------------------
(* Claims about process_feedback (checked under Spec) *)

\* the run of process_feedback is over: it returned, or its exception was reported
Ended == pc \in {"done", "error_shown"}

RaisedCalls == {k \in 1..Len(calls) : calls[k].outcome = "raised"}

RecordColumns == {"summary", "sentiment", "actions", "examples"}

\* C1 (as stated): with N groups and M < N failing completion calls,
\* process_feedback returns exactly N records, one per group; a failing
\* group's record carries an error description as its summary and every other
\* group's record is produced from its own completion.
C1_OneRecordPerGroup ==
    (Ended /\ exc # "AttributeError" /\ Cardinality(RaisedCalls) < total_groups) =>
        /\ pc = "done"
        /\ Len(results) = total_groups
        /\ {KeyOf(results[k]) : k \in 1..Len(results)} = DistinctKeys(df)
        /\ \A k \in 1..Len(calls) :
              LET key == GroupKeys(df)[calls[k].group]
              IN  IF calls[k].outcome = "raised"
                  THEN results[k].summary.tag = "str"
                  ELSE results[k] =
                          FeedbackRecord(key[1], key[2], calls[k].completion).rec

\* C3 (as stated): whatever completion text the remote call returns, valid
\* JSON that is not an object included, no exception escapes the extraction
\* step, and every field of a record is a value of the parsed object or null.
C3_ExtractionNeverRaises ==
    /\ pc \in {"raised", "error_shown"} => exc = "UpstreamError"
    /\ \A k \in 1..Len(results) :
          LET parsed == FeedbackParsed(calls[k].completion)
          IN  /\ parsed.tag = "dict"
              /\ \A c \in RecordColumns :
                    \/ results[k][c] = None
                    \/ \E f \in DOMAIN parsed.d : results[k][c] = parsed.d[f]

\* position of the first row of df with the given key
FirstIndex(key) ==
    CHOOSE j \in 1..Len(df) :
        /\ KeyOf(df[j]) = key
        /\ \A m \in 1..(j - 1) : KeyOf(df[m]) # key

\* C6 (as stated): the records are emitted in first-seen group order: the
\* record of group A precedes the record of group B exactly when the first
\* row keyed A comes before the first row keyed B.
C6_FirstSeenOrder ==
    \A a, b \in 1..Len(results) :
        (a < b) <=> (FirstIndex(KeyOf(results[a])) < FirstIndex(KeyOf(results[b])))

\* C6 (amended): the records are emitted in ascending order of the group key
\* (instructor_id, then course_id), whatever the order of the rows: rows
\* keyed (2,20) followed by rows keyed (1,10) yield the (1,10) record first;
\* a completed run holds one record for each distinct key.
C6_SortedKeyOrder ==
    /\ \A a, b \in 1..Len(results) :
          (a < b) => KeyLess(KeyOf(results[a]), KeyOf(results[b]))
    /\ pc = "done" => {KeyOf(results[k]) : k \in 1..Len(results)} = DistinctKeys(df)

\* C6 witness: rows keyed (2,20) came first, rows keyed (1,10) after, and the
\* completed run emitted the (1,10) record first
C6_Witness ==
    /\ pc = "done"
    /\ Len(df) >= 2
    /\ KeyOf(df[1]) = <<2, 20>>
    /\ KeyOf(df[2]) = <<1, 10>>
    /\ Len(results) = 2
    /\ KeyOf(results[1]) = <<1, 10>>
    /\ KeyOf(results[2]) = <<2, 20>>

\* C8 (as stated): in any run each group triggers exactly one completion
\* call, the calls happen one after another in group order (group k's call
\* only after group k-1's record is appended), progress for group i is
\* reported only after its record is appended, and reaches N of N exactly
\* when all N records exist.
C8_OneCallPerGroupInOrder ==
    /\ \A k \in 1..Len(calls) : calls[k].group = k
    /\ Len(calls) <= Len(results) + 1
    /\ progress <= Len(results)
    /\ (total_groups > 0 /\ progress = total_groups) => Len(results) = total_groups
    /\ pc = "done" => progress = total_groups
    /\ Ended =>
          \A g \in 1..total_groups :
              Cardinality({k \in 1..Len(calls) : calls[k].group = g}) = 1

-----------------------------------------------------------------------------
(* The lecture section of the script (lines 76-104, 261-332).  Every UI     *)
(* event reruns the script top to bottom; an action is one event together   *)
(* with the script run it triggers.  The completion call of an analysis is  *)
(* a step of its own (upc = "llm" while it is pending).                     *)

MaxSegments == 2

UploadTexts == {<<>>, <<"a">>, <<"a", "b", "c">>}

\* an uploaded .txt file: its bytes decode as UTF-8 to text, or do not decode
File(t) == [tag |-> "file", valid |-> TRUE, text |-> t]
BadFile == [tag |-> "file", valid |-> FALSE, text |-> <<>>]
UploadFiles == {File(t) : t \in UploadTexts} \cup {BadFile}

VideoIds == {<<"v">>}

\* caption segments YouTubeTranscriptApi().fetch may return (their .text)
SegmentTexts == {<<"a">>, <<" ">>, <<"b", "c">>}
SegmentLists == UNION {[1..n -> SegmentTexts] : n \in 0..MaxSegments}

\* what the completion endpoint may answer for a lecture prompt
LectureCompletions ==
    {<<DocLecture>>,
     FenceJson \o <<"\n", DocLectureExtra, "\n">> \o Fence,
     <<"x">>,
     <<DocArray>>}

\* " ".join(parts)
RECURSIVE SpaceJoin(_)
SpaceJoin(parts) ==
    IF parts = <<>>
    THEN <<>>
    ELSE parts[1] \o (IF Len(parts) > 1 THEN <<" ">> \o SpaceJoin(Tail(parts)) ELSE <<>>)

\* lines 79-83: join the segments whose text is not blank, cap at max_chars
FetchedText(segments) ==
    TruncateFetched(SpaceJoin(SelectSeq(segments, LAMBDA t : strip(t) # <<>>)),
                    FetchMaxChars)

\* faulty variant: the button shown whenever a transcript was stored, empty or not
ShowAnalyzeButton_notNone(tt) == tt.tag = "str"

\* line 316: if st.session_state.transcript_text
ShowAnalyzeButton(tt) == Truthy(tt)

\* lines 310-313 / 277-278: the preview shown at the end of a run
Preview(tt) == IF Truthy(tt) THEN {"preview"} ELSE {}

InitLecture ==
    /\ option = "upload" /\ txt_file = None /\ video_id = <<>>
    /\ transcript_text = None      \* lines 262-263
    /\ upc = "idle" /\ analyzed = None /\ prompt_text = <<>> /\ critique = None
    /\ msgs = {} /\ event = "start" /\ lastStored = None
    /\ FeedbackOff /\ HelpersOff

\* locals of the previous script run are gone when a new run starts
NoAnalysis == analyzed' = None /\ prompt_text' = <<>> /\ critique' = None

\* lines 271-278 for the uploader value f: the transcript is stored from the
\* file; .decode("utf-8") raising ends the run (nothing stored)
RunUploadBranch(f) ==
    IF f = None
    THEN /\ UNCHANGED <<transcript_text, lastStored>>
         /\ msgs' = {}
    ELSE IF f.valid
    THEN /\ transcript_text' = Str(f.text)
         /\ lastStored' = Str(f.text)
         /\ msgs' = {"loaded", "preview"}
    ELSE /\ UNCHANGED <<transcript_text, lastStored>>
         /\ msgs' = {"exception"}

\* lines 265-269: the radio is switched; a widget of the branch that was not
\* rendered may come back with its value or empty
SelectOption(o) ==
    /\ upc = "idle" /\ o # option
    /\ option' = o
    /\ event' = "select"
    /\ IF o = "upload"
       THEN /\ \E f \in {None, txt_file} :
                 /\ txt_file' = f
                 /\ RunUploadBranch(f)
            /\ video_id' = video_id
       ELSE /\ \E v \in {<<>>, video_id} : video_id' = v
            /\ msgs' = Preview(transcript_text)
            /\ UNCHANGED <<txt_file, transcript_text, lastStored>>
    /\ NoAnalysis
    /\ UNCHANGED <<upc, fvars, hvars>>

\* lines 271-278: a file is put in the uploader
UploadFile(f) ==
    /\ upc = "idle" /\ option = "upload"
    /\ txt_file' = f
    /\ event' = "upload"
    /\ RunUploadBranch(f)
    /\ NoAnalysis
    /\ UNCHANGED <<option, video_id, upc, fvars, hvars>>

\* lines 272-273: the file is removed from the uploader
RemoveFile ==
    /\ upc = "idle" /\ option = "upload" /\ txt_file # None
    /\ txt_file' = None
    /\ event' = "remove"
    /\ RunUploadBranch(None)
    /\ NoAnalysis
    /\ UNCHANGED <<option, video_id, upc, fvars, hvars>>

\* lines 293-297, 310-313: a video id is typed in
EnterVideoId(v) ==
    /\ upc = "idle" /\ option = "youtube" /\ v # video_id
    /\ video_id' = v
    /\ event' = "video_id"
    /\ msgs' = Preview(transcript_text)
    /\ NoAnalysis
    /\ UNCHANGED <<option, txt_file, transcript_text, lastStored, upc, fvars, hvars>>

\* lines 297-304, 76-83: Fetch Transcript succeeds; the transcript is stored
\* and st.rerun() runs the script again (no button clicked in that run)
FetchSucceeds ==
    /\ upc = "idle" /\ option = "youtube" /\ video_id # <<>>
    /\ \E segs \in SegmentLists :
        /\ transcript_text' = Str(FetchedText(segs))
        /\ lastStored' = Str(FetchedText(segs))
        /\ msgs' = Preview(Str(FetchedText(segs)))
    /\ event' = "fetch_ok"
    /\ NoAnalysis
    /\ UNCHANGED <<option, txt_file, video_id, upc, fvars, hvars>>

\* faulty variant: the except branch also drops the transcript held in the session
FetchFails_clears ==
    /\ upc = "idle" /\ option = "youtube" /\ video_id # <<>>
    /\ transcript_text' = None
    /\ msgs' = {"fetch_error", "hint"}
    /\ event' = "fetch_failed"
    /\ NoAnalysis
    /\ UNCHANGED <<option, txt_file, video_id, lastStored, upc, fvars, hvars>>

\* lines 297-301, 306-313: fetch_youtube_transcript raises; the except branch
\* shows the error and the hint, then the run goes on to lines 310-317 with
\* the Analyze button not clicked
FetchFails ==
    /\ upc = "idle" /\ option = "youtube" /\ video_id # <<>>
    /\ msgs' = {"fetch_error", "hint"} \cup Preview(transcript_text)
    /\ event' = "fetch_failed"
    /\ NoAnalysis
    /\ UNCHANGED <<option, txt_file, video_id, transcript_text, lastStored, upc,
                   fvars, hvars>>

\* lines 271-278, 316-319, 85-87: Analyze Lecture is clicked (it was shown by
\* the previous run); the run redoes the upload branch, retests line 316 and
\* calls analyze_transcript, which sends the prompt
ClickAnalyze ==
    /\ upc = "idle"
    /\ ShowAnalyzeButton(transcript_text)
    /\ ~(option = "upload" /\ txt_file = BadFile)   \* that run ended at line 274
    /\ event' = "analyze"
    /\ IF option = "upload" THEN RunUploadBranch(txt_file)
                            ELSE UNCHANGED <<transcript_text, lastStored, msgs>>
    /\ IF ShowAnalyzeButton(transcript_text')
       THEN /\ analyzed' = transcript_text'
            /\ prompt_text' = TranscriptForPrompt(transcript_text'.s)
            /\ upc' = "llm"
       ELSE /\ analyzed' = None
            /\ prompt_text' = <<>>
            /\ upc' = "idle"
    /\ critique' = None
    /\ UNCHANGED <<option, txt_file, video_id, fvars, hvars>>

\* lines 88-104, 321-332: the completion arrives, analyze_transcript returns
\* the parsed value (or its fallback) and the script displays it;
\* display_lecture_critique raises AttributeError on a value that is no dict
LlmReturns ==
    /\ upc = "llm"
    /\ \E r \in LectureCompletions :
        /\ critique' = AnalyzeParsed(r)
        /\ msgs' = IF AnalyzeParsed(r).tag = "dict" THEN {"critique", "download"}
                                                    ELSE {"exception"}
    /\ event' = "llm_returned"
    /\ upc' = "idle"
    /\ UNCHANGED <<option, txt_file, video_id, transcript_text, analyzed,
                   prompt_text, lastStored, fvars, hvars>>

\* lines 88, 319: call_llm raises; nothing catches it, the run ends
LlmRaises ==
    /\ upc = "llm"
    /\ msgs' = {"exception"}
    /\ event' = "llm_raised"
    /\ upc' = "idle"
    /\ UNCHANGED <<option, txt_file, video_id, transcript_text, analyzed,
                   prompt_text, critique, lastStored, fvars, hvars>>

NextLecture ==
    \/ \E o \in {"upload", "youtube"} : SelectOption(o)
    \/ \E f \in UploadFiles : UploadFile(f)
    \/ RemoveFile
    \/ \E v \in VideoIds \cup {<<>>} : EnterVideoId(v)
    \/ FetchSucceeds
    \/ FetchFails
    \/ ClickAnalyze
    \/ LlmReturns
    \/ LlmRaises

SpecLecture == InitLecture /\ [][NextLecture]_vars

-----------------------------------------------------------------------------
(* Claims about the lecture section (checked under SpecLecture) *)

\* C9: a failed transcript fetch is reported with the remediation hint and
\* changes nothing else: the session transcript keeps its value (a transcript
\* loaded earlier stays available, its Analyze button still shown), the
\* widgets keep theirs, and the failed fetch starts no analysis.
C9_FailedFetchKeepsTranscript ==
    [][event' = "fetch_failed" =>
          /\ transcript_text' = transcript_text
          /\ lastStored' = lastStored
          /\ {"fetch_error", "hint"} \subseteq msgs'
          /\ <<option', txt_file', video_id'>> = <<option, txt_file, video_id>>
          /\ upc' = "idle"
          /\ analyzed' = None
          /\ critique' = None
          /\ Truthy(transcript_text) =>
                (ShowAnalyzeButton(transcript_text') /\ "preview" \in msgs')]_vars

\* C9 witness: a fetch failed while a transcript loaded earlier was in the session
C9_Witness ==
    /\ event = "fetch_failed"
    /\ Truthy(transcript_text)
    /\ "hint" \in msgs
    /\ upc = "idle"

\* C10: analyze_transcript is invoked only while the session transcript is
\* non-empty, on the value most recently stored by a successful upload or
\* fetch; the session transcript starts as None and, once stored, is never
\* reset to None or cleared (it always equals the latest stored value).
C10_AnalyzesLatestStoredTranscript ==
    /\ event = "start" => transcript_text = None
    /\ transcript_text = lastStored
    /\ upc = "llm" =>
          /\ Truthy(transcript_text)
          /\ analyzed = transcript_text
    /\ analyzed # None =>
          /\ Truthy(analyzed)
          /\ analyzed = lastStored
          /\ prompt_text = SubSeq(analyzed.s, 1, Min(Len(analyzed.s), TranscriptBudget))

\* C10 witness: a fetched (and capped) transcript is being analyzed after the
\* input method was switched back to upload
C10_Witness ==
    /\ upc = "llm"
    /\ option = "upload"
    /\ txt_file = None
    /\ analyzed = transcript_text
    /\ Len(analyzed.s) = FetchMaxChars + Len(TruncatedMarker)

-----------------------------------------------------------------------------
(* Claims about the extraction step (checked under SpecExtract) *)

FeedbackKeys == {"summary", "sentiment", "actions", "example_quotes"}
LectureKeys == {"summary", "clarity_structure", "missing_content",
                "factual_issues", "pedagogical_suggestions"}

\* the column of the feedback record that holds an expected key
Column(k) == IF k = "example_quotes" THEN "examples" ELSE k

\* json.loads raises on the cleaned completion
ParseRaises(text) == ~json_loads(CleanResponse(text)).ok

\* the completion holds exactly one document, an object, and parsing succeeds
ParsesAsObject(text) ==
    /\ ~ParseRaises(text)
    /\ Cardinality({k \in 1..Len(text) : text[k] \in Docs}) = 1
    /\ \E k \in 1..Len(text) : text[k] \in ObjectDocs

\* the object a completion holds, read off the document itself
ObjectIn(text) ==
    DocValue(CHOOSE d \in ObjectDocs : \E k \in 1..Len(text) : text[k] = d).d

FenceForms(J) ==
    {lead \o open \o <<"\n">> \o <<J>> \o <<"\n">> \o Fence \o trail :
        lead \in {<<>>, <<" ">>}, open \in {Fence, FenceJson},
        trail \in {<<>>, <<"\n">>}}
    \cup {lead \o <<J>> \o trail : lead \in {<<>>, <<" ">>}, trail \in {<<>>, <<"\n">>}}

\* C4 (as stated): a JSON object J yields the same record whether the
\* completion is J bare, J in a fence tagged json, or J in an untagged fence,
\* with any surrounding whitespace.
C4_FenceIndependent ==
    \A J \in ObjectDocs :
        arg \in FenceForms(J) =>
            /\ applied = "process_feedback" => ret = FeedbackRecord(1, 10, <<J>>)
            /\ applied = "analyze_transcript" => ret = AnalyzeParsed(<<J>>)

-----------------------------------------------------------------------------
(* Claims about truncation (checked under SpecTrunc) *)

\* the truncate contract of the specification for text T, limit L, result out
FollowsTruncateContract(T, L, out) ==
    IF Len(T) <= L
    THEN out = T
    ELSE /\ out = SubSeq(T, 1, L) \o TruncatedMarker
         /\ Len(out) = L + Len(TruncatedMarker)

\* a hard cut: the first L characters, nothing appended
IsPlainPrefix(T, L, out) ==
    /\ Len(out) = Min(Len(T), L)
    /\ \A k \in 1..Len(out) : out[k] = T[k]

\* C7 (as stated): the transcript fetch cap, the feedback-items budget and
\* the transcript budget all follow the truncate contract (marker appended
\* when the text is longer than the limit).
C7_AllFollowContract ==
    /\ applied = "fetch_cap" => FollowsTruncateContract(arg, FetchMaxChars, ret.s)
    /\ applied = "feedback_budget" => FollowsTruncateContract(arg, FeedbackBudget, ret.s)
    /\ applied = "transcript_budget" =>
          FollowsTruncateContract(arg, TranscriptBudget, ret.s)

\* C7 (amended): only the transcript fetch cap follows the truncate contract
\* (unchanged up to the limit L, else the first L characters followed by
\* " ...[truncated]", length L + 15); the feedback-items budget and the
\* transcript budget are hard cuts to the first L characters with no marker,
\* so their result length is min(len, L).
C7_FetchCapOnlyHasMarker ==
    /\ Len(TruncatedMarker) = 15
    /\ applied = "fetch_cap" => FollowsTruncateContract(arg, FetchMaxChars, ret.s)
    /\ applied = "feedback_budget" => IsPlainPrefix(arg, FeedbackBudget, ret.s)
    /\ applied = "transcript_budget" => IsPlainPrefix(arg, TranscriptBudget, ret.s)

\* C7 witness: the fetch cap cut a text longer than the limit
C7_Witness ==
    /\ applied = "fetch_cap"
    /\ Len(arg) > FetchMaxChars
    /\ Len(ret.s) = FetchMaxChars + 15

====
